---- MODULE Spec2Model ----
(***************************************************************************)
(* The movie REST service of main.py: one table of movie rows and the four *)
(* handlers of the Movie resource (GET, PUT, PATCH, DELETE) on             *)
(* /movie/<int:movie_id>.                                                  *)
(*                                                                         *)
(* Texts are TLA+ strings.  An argument the request body does not carry is *)
(* None, as reqparse returns it.  The imdb_rating column is declared       *)
(* Integer while its parser is type=str: the stored value carries SQLite's *)
(* storage class, and the response value is what fields.Integer makes of   *)
(* it.                                                                     *)
(***************************************************************************)
EXTENDS Integers, FiniteSets, TLC

\* Largest movie id a request carries.
MaxId == 2

Ids == 1..MaxId

\* Python's None: the value parse_args gives an argument the body lacks.
None == "None"

\* The texts requests carry, per argument.  "" is the empty (falsy) text.
NameTexts == {"a", "b"}
\* "7" is an integer literal, "7.8" a real literal, "abc" and "" no number.
RatingTexts == {"", "7", "7.8", "abc"}
GenreTexts == {"", "g"}
ActorsTexts == {"x"}
DirectorTexts == {"d"}

\* A request body: each argument either a text or None (not supplied).
Bodies ==
  [name : NameTexts \cup {None},
   imdb_rating : RatingTexts \cup {None},
   genre : GenreTexts \cup {None},
   actors : ActorsTexts \cup {None},
   director : DirectorTexts \cup {None}]

-----------------------------------------------------------------------------
\* The imdb_rating column: db.Integer on SQLite, bound from a str.

IntegerTexts == {"7"}
RealTexts == {"7.8"}

\* The integer part of a real literal, as int() of a float gives it.
Truncated(t) == CASE t = "7.8" -> "7" [] OTHER -> t

\* A column of INTEGER affinity keeps a text that is a well-formed integer
\* or real literal as INTEGER or REAL, and any other text as TEXT.
Affinity(t) ==
  IF t \in IntegerTexts THEN [cls |-> "INTEGER", txt |-> t]
  ELSE IF t \in RealTexts THEN [cls |-> "REAL", txt |-> t]
  ELSE [cls |-> "TEXT", txt |-> t]

\* fields.Integer.format: int(value); a ValueError is a MarshallingError.
IntegerFails(v) == v.cls = "TEXT"
IntegerFormat(v) == IF v.cls = "REAL" THEN Truncated(v.txt) ELSE v.txt

-----------------------------------------------------------------------------
\* MovieModel: the rows of the table and its column constraints.

MovieModel(id, name, imdb_rating, genre, actors, director) ==
  [id |-> id, name |-> name, imdb_rating |-> Affinity(imdb_rating),
   genre |-> genre, actors |-> actors, director |-> director]

\* IntegrityError for a table whose id column is no primary key.
IntegrityErrorNoKey(s, row) ==
  \/ \E r \in s : r.name = row.name
  \/ None \in {row.name, row.genre, row.actors, row.director}

\* primary_key=True on id, unique=True on name, nullable=False throughout:
\* whether the table s refuses row beside its rows.
IntegrityError(s, row) ==
  \/ \E r \in s : r.id = row.id
  \/ \E r \in s : r.name = row.name
  \/ None \in {row.name, row.genre, row.actors, row.director}

\* MovieModel.query.filter_by(id=movie_id)
FilterById(s, movie_id) == {r \in s : r.id = movie_id}

\* MovieModel.query.filter_by(name=name): a None name compares as IS NULL.
FilterByName(s, name) == {r \in s : r.name = name}

\* .first() of a query: one of its rows.
First(rows) == CHOOSE r \in rows : TRUE

-----------------------------------------------------------------------------
\* Responses.

\* marshal(row, resource_fields)
Marshal(row) ==
  [id |-> row.id, name |-> row.name,
   imdb_rating |-> IntegerFormat(row.imdb_rating),
   genre |-> row.genre, actors |-> row.actors, director |-> row.director]

\* marshal(200, resource_fields): an int has none of the fields, so each
\* takes its default (0 for fields.Integer, None for fields.String).
MarshalStatus ==
  [id |-> 0, name |-> None, imdb_rating |-> "0",
   genre |-> None, actors |-> None, director |-> None]

Result(s, status, message, body) ==
  [store |-> s, status |-> status, message |-> message, body |-> body]

\* abort(status, message=...): the store is as the handler found it.
Abort(s, status, message) == Result(s, status, message, {})

\* @marshal_with(resource_fields) on a row the handler returns after its
\* commit: the row is rendered, or the rendering fails with a 500.
MarshalWith(s, row, status) ==
  IF IntegerFails(row.imdb_rating)
  THEN Result(s, 500, "Internal Server Error", {})
  ELSE Result(s, status, "", {Marshal(row)})

-----------------------------------------------------------------------------
\* The parsers.

\* movie_put_args.parse_args(): the first required argument that is missing
\* fails the request with its help text.
movie_put_args(body) ==
  IF body.name = None THEN "Name of the movie is required"
  ELSE IF body.imdb_rating = None THEN "IMDB rating of the movie is required"
  ELSE IF body.genre = None THEN "Genre of the movie is required"
  ELSE IF body.actors = None THEN "Actors of the movie are required"
  ELSE IF body.director = None THEN "Director of the movie is required"
  ELSE ""

\* The truth value of an argument: None and "" are false.
Truthy(v) == v # None /\ v # ""

-----------------------------------------------------------------------------
\* The handlers of the Movie resource, each from the table s it finds to
\* the table it leaves and its response.

get(s, movie_id) ==
  LET result == FilterById(s, movie_id)
  IN IF result = {}
     THEN Abort(s, 404, "Couldn't find movie with given ID")
     ELSE MarshalWith(s, First(result), 200)

\* put without its two lookups, on a table that enforces no constraint.
put_unchecked(s, movie_id, body) ==
  LET movie == MovieModel(movie_id, body.name, body.imdb_rating,
                          body.genre, body.actors, body.director)
  IN IF movie_put_args(body) # ""
     THEN Abort(s, 400, movie_put_args(body))
     ELSE MarshalWith(s \cup {movie}, movie, 201)

put(s, movie_id, body) ==
  LET id_result == FilterById(s, movie_id)
      name_result == FilterByName(s, body.name)
      movie == MovieModel(movie_id, body.name, body.imdb_rating,
                          body.genre, body.actors, body.director)
  IN IF movie_put_args(body) # ""
     THEN Abort(s, 400, movie_put_args(body))
     ELSE IF id_result # {}
     THEN Abort(s, 409, "Movie id already taken")
     ELSE IF name_result # {}
     THEN Abort(s, 409, "Movie name already taken")
     ELSE IF IntegrityError(s, movie)
     THEN Abort(s, 500, "Internal Server Error")
     ELSE MarshalWith(s \cup {movie}, movie, 201)

\* Update testing "is not None" where patch tests the truth value: an empty
\* text overwrites too.
UpdateSupplied(result, body) ==
  [id |-> result.id,
   name |-> IF body.name # None THEN body.name ELSE result.name,
   imdb_rating |-> IF body.imdb_rating # None
                   THEN Affinity(body.imdb_rating)
                   ELSE result.imdb_rating,
   genre |-> IF body.genre # None THEN body.genre ELSE result.genre,
   actors |-> IF body.actors # None THEN body.actors ELSE result.actors,
   director |-> IF body.director # None THEN body.director
                ELSE result.director]

\* The assignments of patch: an argument that is true overwrites its field.
Update(result, body) ==
  [id |-> result.id,
   name |-> IF Truthy(body.name) THEN body.name ELSE result.name,
   imdb_rating |-> IF Truthy(body.imdb_rating)
                   THEN Affinity(body.imdb_rating)
                   ELSE result.imdb_rating,
   genre |-> IF Truthy(body.genre) THEN body.genre ELSE result.genre,
   actors |-> IF Truthy(body.actors) THEN body.actors ELSE result.actors,
   director |-> IF Truthy(body.director) THEN body.director
                ELSE result.director]

\* patch looking the name up among the other records only.
patch_others(s, movie_id, body) ==
  LET found == FilterById(s, movie_id)
      name_result == FilterByName(s \ found, body.name)
      result == First(found)
      updated == Update(result, body)
  IN IF found = {}
     THEN Abort(s, 404, "Couldn't find movie with given ID")
     ELSE IF name_result # {}
     THEN Abort(s, 409, "Name of the movie already used")
     ELSE IF IntegrityError(s \ {result}, updated)
     THEN Abort(s, 500, "Internal Server Error")
     ELSE MarshalWith((s \ {result}) \cup {updated}, updated, 200)

patch(s, movie_id, body) ==
  LET found == FilterById(s, movie_id)
      name_result == FilterByName(s, body.name)
      result == First(found)
      updated == Update(result, body)
  IN IF found = {}
     THEN Abort(s, 404, "Couldn't find movie with given ID")
     ELSE IF name_result # {}
     THEN Abort(s, 409, "Name of the movie already used")
     ELSE IF IntegrityError(s \ {result}, updated)
     THEN Abort(s, 500, "Internal Server Error")
     ELSE MarshalWith((s \ {result}) \cup {updated}, updated, 200)

delete(s, movie_id) ==
  LET found == FilterById(s, movie_id)
  IN IF found = {}
     THEN Abort(s, 404, "Couldn't find movie with given ID")
     ELSE Result(s \ {First(found)}, 200, "", {MarshalStatus})

-----------------------------------------------------------------------------
\* The service: the table, the last request's verb, id and response, and
\* the put handlers in flight when requests are served concurrently.

VARIABLES store, resp, handler

vars == <<store, resp, handler>>

\* The workers that serve requests at the same time.
Clients == {"w1", "w2"}

NoBody ==
  [name |-> None, imdb_rating |-> None, genre |-> None, actors |-> None,
   director |-> None]

\* A worker with no request at hand.
Idle ==
  [pc |-> "idle", id |-> 0, body |-> NoBody, id_result |-> {},
   name_result |-> {}, committed |-> FALSE, status |-> 0]

Response(verb, movie_id, r) ==
  [verb |-> verb, id |-> movie_id, status |-> r.status,
   message |-> r.message, body |-> r.body]

\* db.create_all() on a missing database.db: an empty table.
Init ==
  /\ store = {}
  /\ resp = [verb |-> "", id |-> 0, status |-> 0, message |-> "", body |-> {}]
  /\ handler = [c \in Clients |-> Idle]

\* One request at a time: each handler runs from its lookup to its response.

Get(movie_id) ==
  LET r == get(store, movie_id)
  IN /\ store' = r.store
     /\ resp' = Response("GET", movie_id, r)
     /\ UNCHANGED handler

Put(movie_id, body) ==
  LET r == put(store, movie_id, body)
  IN /\ store' = r.store
     /\ resp' = Response("PUT", movie_id, r)
     /\ UNCHANGED handler

Patch(movie_id, body) ==
  LET r == patch(store, movie_id, body)
  IN /\ store' = r.store
     /\ resp' = Response("PATCH", movie_id, r)
     /\ UNCHANGED handler

Delete(movie_id) ==
  LET r == delete(store, movie_id)
  IN /\ store' = r.store
     /\ resp' = Response("DELETE", movie_id, r)
     /\ UNCHANGED handler

Next ==
  \/ \E movie_id \in Ids : Get(movie_id)
  \/ \E movie_id \in Ids, body \in Bodies : Put(movie_id, body)
  \/ \E movie_id \in Ids, body \in Bodies : Patch(movie_id, body)
  \/ \E movie_id \in Ids : Delete(movie_id)

Spec == Init /\ [][Next]_vars

-----------------------------------------------------------------------------
\* put, statement by statement, on workers that share the table: the two
\* queries, the checks and the commit of one request interleave with those
\* of another.

\* The bodies of the concurrent requests: they differ in the name, and in
\* whether the last required argument is there.
ConcBodies ==
  {b \in Bodies : /\ b.name # None
                  /\ b.imdb_rating = "7"
                  /\ b.genre = "g"
                  /\ b.actors # None}

\* args = movie_put_args.parse_args()
PutParse(c, movie_id, body) ==
  /\ handler[c].pc \in {"idle", "done"}
  /\ handler' =
       [handler EXCEPT ![c] =
          IF movie_put_args(body) # ""
          THEN [Idle EXCEPT !.pc = "done", !.id = movie_id, !.body = body,
                            !.status = 400]
          ELSE [Idle EXCEPT !.pc = "query_id", !.id = movie_id,
                            !.body = body]]
  /\ UNCHANGED <<store, resp>>

\* id_result = MovieModel.query.filter_by(id=movie_id).first()
PutQueryId(c) ==
  /\ handler[c].pc = "query_id"
  /\ handler' =
       [handler EXCEPT ![c].pc = "query_name",
                       ![c].id_result = FilterById(store, handler[c].id)]
  /\ UNCHANGED <<store, resp>>

\* name_result = MovieModel.query.filter_by(name=args['name']).all()
PutQueryName(c) ==
  /\ handler[c].pc = "query_name"
  /\ handler' =
       [handler EXCEPT ![c].pc = "check",
                       ![c].name_result =
                          FilterByName(store, handler[c].body.name)]
  /\ UNCHANGED <<store, resp>>

\* if id_result: abort(409) elif name_result: abort(409)
PutCheck(c) ==
  /\ handler[c].pc = "check"
  /\ handler' =
       [handler EXCEPT ![c].pc =
                          IF handler[c].id_result # {}
                             \/ handler[c].name_result # {}
                          THEN "done" ELSE "commit",
                       ![c].status =
                          IF handler[c].id_result # {}
                             \/ handler[c].name_result # {}
                          THEN 409 ELSE 0]
  /\ UNCHANGED <<store, resp>>

\* db.session.add(movie); db.session.commit(); return movie, 201
PutCommit(c) ==
  LET h == handler[c]
      movie == MovieModel(h.id, h.body.name, h.body.imdb_rating,
                          h.body.genre, h.body.actors, h.body.director)
  IN /\ h.pc = "commit"
     /\ IF IntegrityError(store, movie)
        THEN /\ store' = store
             /\ handler' = [handler EXCEPT ![c].pc = "done",
                                           ![c].status = 500]
        ELSE /\ store' = store \cup {movie}
             /\ handler' =
                  [handler EXCEPT
                     ![c].pc = "done",
                     ![c].committed = TRUE,
                     ![c].status =
                        MarshalWith(store \cup {movie}, movie, 201).status]
     /\ UNCHANGED resp

NextConc ==
  \/ \E c \in Clients, movie_id \in Ids, body \in ConcBodies :
       PutParse(c, movie_id, body)
  \/ \E c \in Clients : PutQueryId(c)
  \/ \E c \in Clients : PutQueryName(c)
  \/ \E c \in Clients : PutCheck(c)
  \/ \E c \in Clients : PutCommit(c)

SpecConc == Init /\ [][NextConc]_vars

-----------------------------------------------------------------------------
\* What the properties below speak of.

\* A record with movie_id exists in the table s.
Present(s, movie_id) == \E row \in s : row.id = movie_id

ExistingIds(s) == {row.id : row \in s}

\* The bodies that carry all five required arguments.
FullBodies ==
  {b \in Bodies : None \notin {b.name, b.imdb_rating, b.genre, b.actors,
                               b.director}}

\* The record a response should show for movie_id and the texts of body.
Echo(movie_id, body) ==
  [id |-> movie_id, name |-> body.name, imdb_rating |-> body.imdb_rating,
   genre |-> body.genre, actors |-> body.actors, director |-> body.director]

\* The record a response should show for a stored row.
Stored(row) ==
  [id |-> row.id, name |-> row.name, imdb_rating |-> row.imdb_rating.txt,
   genre |-> row.genre, actors |-> row.actors, director |-> row.director]

\* A response record with its rating left out of the comparison.
BesidesRating(rec) == [rec EXCEPT !.imdb_rating = None]

\* The field new is old overwritten by the argument arg, if arg is supplied
\* and not empty.
Overwritten(arg, old, new) ==
  new = IF arg \notin {None, ""} THEN arg ELSE old

-----------------------------------------------------------------------------
\* C1: in every state reached from the empty table by GET, PUT, PATCH and
\* DELETE requests, no two stored records have the same id and no two have
\* the same name.
C1_UniqueIdsAndNames ==
  \A r1 \in store : \A r2 \in store :
    (r1.id = r2.id \/ r1.name = r2.name) => r1 = r2

\* Two records are stored and the last request, a conflicting one, was
\* refused.
C1_Witness ==
  /\ Cardinality(store) = 2
  /\ resp.status = 409

\* C2: a PUT whose body carries all five arguments answers 409 exactly when
\* the id or the name is taken (the id conflict reported first), and 201
\* with the created record's fields and the path id in every other case.
\* (The value the response shows for the rating is C7's subject.)
C2_PutResponse ==
  [][\A body \in FullBodies :
       (resp'.verb = "PUT" /\ Put(resp'.id, body)) =>
         LET idTaken == Present(store, resp'.id)
             nameTaken == \E row \in store : row.name = body.name
         IN /\ resp'.status = 409 <=> (idTaken \/ nameTaken)
            /\ idTaken => resp'.message = "Movie id already taken"
            /\ (~idTaken /\ nameTaken) =>
                 resp'.message = "Movie name already taken"
            /\ (~idTaken /\ ~nameTaken) =>
                 /\ resp'.status = 201
                 /\ {BesidesRating(rec) : rec \in resp'.body}
                      = {BesidesRating(Echo(resp'.id, body))}]_vars

\* C3: a successful PUT adds exactly one record, the one with the path id
\* and the body's fields, and changes no other; a PUT that fails leaves the
\* table as it was.
C3_PutFrame ==
  [][\A body \in Bodies :
       (resp'.verb = "PUT" /\ Put(resp'.id, body)) =>
         IF resp'.status = 201
         THEN /\ store \subseteq store'
              /\ Cardinality(store' \ store) = 1
              /\ \A row \in store' \ store :
                   Stored(row) = Echo(resp'.id, body)
         ELSE store' = store]_vars

\* C4: a successful PATCH overwrites, on the record with the path id,
\* exactly the fields the body supplies with a non-empty value; the other
\* fields, the id and every other record stay as they were.
C4_PatchFrame ==
  \A movie_id \in Ids : \A body \in Bodies :
    LET r == patch(store, movie_id, body)
    IN r.status = 200 =>
         \E old \in store : \E new \in r.store :
           /\ old.id = movie_id
           /\ new.id = movie_id
           /\ r.store \ {new} = store \ {old}
           /\ Overwritten(body.name, old.name, new.name)
           /\ IF body.imdb_rating \notin {None, ""}
              THEN new.imdb_rating.txt = body.imdb_rating
              ELSE new.imdb_rating = old.imdb_rating
           /\ Overwritten(body.genre, old.genre, new.genre)
           /\ Overwritten(body.actors, old.actors, new.actors)
           /\ Overwritten(body.director, old.director, new.director)

\* A PATCH has succeeded on one of two stored records.
C4_Witness ==
  /\ resp.verb = "PATCH"
  /\ resp.status = 200
  /\ Cardinality(store) = 2

\* C5: an id goes from absent to present only by a successful PUT on it and
\* from present to absent only by a successful DELETE on it; GET, PATCH and
\* every failed PUT or DELETE leave the set of existing ids as it was.
C5_Existence ==
  [][LET before == ExistingIds(store)
         after == ExistingIds(store')
     IN /\ after \ before # {} =>
             /\ resp'.verb = "PUT"
             /\ resp'.status = 201
             /\ after \ before = {resp'.id}
        /\ before \ after # {} =>
             /\ resp'.verb = "DELETE"
             /\ resp'.status = 200
             /\ before \ after = {resp'.id}]_vars

\* C6: GET answers 404 exactly when no record has the id, and 200 with the
\* stored record otherwise; after a successful DELETE a GET on the id
\* answers 404; a DELETE on an absent id answers 404 and changes nothing.
\* (The value the response shows for the rating is C7's subject.)
C6_GetAndDelete ==
  [][/\ resp'.verb = "GET" =>
          /\ store' = store
          /\ resp'.status = 404 <=> ~Present(store, resp'.id)
          /\ Present(store, resp'.id) =>
               /\ resp'.status = 200
               /\ \E row \in store :
                    /\ row.id = resp'.id
                    /\ {BesidesRating(rec) : rec \in resp'.body}
                         = {BesidesRating(Stored(row))}
     /\ resp'.verb = "DELETE" =>
          /\ ~Present(store, resp'.id) =>
               /\ resp'.status = 404
               /\ store' = store
          /\ Present(store, resp'.id) =>
               /\ resp'.status = 200
               /\ get(store', resp'.id).status = 404]_vars

\* C7: after a successful PUT, a GET on the same id returns the path id and
\* the five values the PUT supplied, also when a request on another id was
\* served in between.
C7_RoundTrip ==
  [][\A body \in FullBodies :
       (resp'.verb = "PUT" /\ resp'.status = 201 /\ Put(resp'.id, body)) =>
         /\ get(store', resp'.id).body = {Echo(resp'.id, body)}
         /\ \A other \in Ids \ {resp'.id} : \A b \in Bodies :
              /\ get(put(store', other, b).store, resp'.id).body
                   = {Echo(resp'.id, body)}
              /\ get(patch(store', other, b).store, resp'.id).body
                   = {Echo(resp'.id, body)}
              /\ get(delete(store', other).store, resp'.id).body
                   = {Echo(resp'.id, body)}]_vars

\* C8: with the queries, checks and commits of concurrent PUTs interleaved,
\* the table never holds two records with the same id or the same name, and
\* of two requests for the same id or the same name no two commit.
C8_ConcurrentPutsUnique ==
  /\ \A r1 \in store : \A r2 \in store :
       (r1.id = r2.id \/ r1.name = r2.name) => r1 = r2
  /\ \A c1 \in Clients : \A c2 \in Clients \ {c1} :
       (handler[c1].committed /\ handler[c2].committed) =>
         /\ handler[c1].id # handler[c2].id
         /\ handler[c1].body.name # handler[c2].body.name

\* Two PUTs for the same unused id both passed the checks: one committed,
\* and the commit of the other failed on the table's constraint.
C8_Witness ==
  \E c1 \in Clients : \E c2 \in Clients \ {c1} :
    /\ handler[c1].pc = "done" /\ handler[c1].committed
    /\ handler[c2].pc = "done" /\ handler[c2].status = 500
    /\ handler[c1].id = handler[c2].id
    /\ handler[c2].id_result = {} /\ handler[c2].name_result = {}

\* C9: a PATCH on an existing id whose body has no name never answers 409:
\* it succeeds with 200 and leaves the record's name as it was.
C9_PatchWithoutName ==
  [][\A body \in Bodies :
       (/\ resp'.verb = "PATCH"
        /\ body.name = None
        /\ Present(store, resp'.id)
        /\ Patch(resp'.id, body)) =>
         /\ resp'.status # 409
         /\ resp'.status = 200
         /\ \A old \in store : old.id = resp'.id =>
              \E new \in store' : new.id = resp'.id /\ new.name = old.name]_vars

\* C10: a PATCH on an existing id whose body supplies a name some stored
\* record holds, the patched record included, answers 409 "Name of the movie
\* already used" and changes nothing, whatever else the body supplies; a
\* PATCH on an absent id answers 404, not 409, and changes nothing.
C10_PatchNameConflict ==
  \A movie_id \in Ids : \A body \in Bodies :
    LET r == patch(store, movie_id, body)
    IN /\ ~Present(store, movie_id) =>
            /\ r.status = 404
            /\ r.store = store
       /\ (Present(store, movie_id)
             /\ \E row \in store : row.name = body.name) =>
            /\ r.status = 409
            /\ r.message = "Name of the movie already used"
            /\ r.store = store

\* A PATCH on the only stored record was refused with 409: the name it
\* supplied is that record's own.
C10_Witness ==
  /\ resp.verb = "PATCH"
  /\ resp.status = 409
  /\ Cardinality(store) = 1
  /\ Present(store, resp.id)

====
